---- MODULE Spec2Model ----
(***************************************************************************)
(* Model of redirect.py: the check-mode run of main() (row selection, the  *)
(* bounded thread pool of fetch_status probes, collection by row index,    *)
(* classification and the CSV sink) and the classifier                     *)
(* decide_page_exists_value.                                               *)
(*                                                                         *)
(* Text is a sequence of one-character strings, so that strip(), lower()   *)
(* and the substring tests of the classifier are computed, not assumed.    *)
(* An Optional value is <<>> (None) or <<v>>.                              *)
(***************************************************************************)
EXTENDS Integers, Sequences, FiniteSets, TLC

VARIABLES
    pc,               \* position of main(): "setup" .. "done"; "off" when main() is not run
    interrupted,      \* the process was killed at pc
    input_file,       \* the input CSV: None (no such file) or <<[fieldnames, rows]>>
    args_concurrency, \* args.concurrency as supplied by the caller
    concurrency,      \* max(1, int(args.concurrency)), line 347
    fieldnames,       \* reader.fieldnames
    rows,             \* list of row dicts (field name -> Optional text)
    urls_to_check,    \* list of <<idx, url>>
    work_queue,       \* executor's queue of submitted, not yet started, indices
    num_threads,      \* worker threads the executor has spawned
    idle_sem,         \* executor's count of workers that signalled idle
    running,          \* indices whose fetch_status is executing right now
    futures,          \* future_to_info: idx -> the future submitted for it
    yielded,          \* futures as_completed has already yielded
    index_to_result,  \* idx -> CrawlResult
    completed,        \* the progress counter of line 382
    classify_i,       \* rows already classified by the loop of line 404
    sink,             \* the output file: [opened, header, rows]
    write_calls,      \* how often write_csv_rows has been entered
    exit_code,        \* Optional return value of main()
    d_in,             \* classifier under test: its arguments
    d_out,            \* classifier under test: Optional result
    f_in,             \* fetch_status under test: [url, net]
    f_out,            \* fetch_status under test: Optional CrawlResult
    f_requests,       \* fetch_status under test: requests sent to the network
    sm_web,           \* the sitemap documents on the network: URL -> document
    sm_pc,            \* position of fetch_sitemap_urls: "fetch" | "expand" | "done" | "off"
    sm_stack,         \* the active calls of parse_sitemap_content, outermost first
    sm_result,        \* what fetch_sitemap_urls returned
    sm_fetched,       \* every urlopen of a sitemap document so far, in order
    sm_limit_hits,    \* RecursionErrors raised by the interpreter so far
    g_pc,             \* position of generate mode: "resolve" .. "done" | "off"
    g_precheck,       \* not args.no_precheck
    live_urls,        \* fetch_sitemap_urls(site_or_sitemap)
    g_futures,        \* futures of the precheck: <<kind, i>> -> future
    g_yielded,        \* precheck futures as_completed has already yielded
    live_status,      \* status code per live URL
    staging_status,   \* status code per staging URL
    g_rows,           \* the generated rows
    g_sink,           \* the generated CSV file
    g_exit            \* Optional return value of main() in generate mode

poolVars == <<work_queue, num_threads, idle_sem, running, futures>>
collectVars == <<yielded, index_to_result, completed>>
mainVars == <<pc, interrupted, input_file, args_concurrency, concurrency, fieldnames,
              rows, urls_to_check, poolVars, collectVars, classify_i, sink,
              write_calls, exit_code>>
decideVars == <<d_in, d_out>>
fetchVars == <<f_in, f_out, f_requests>>
smVars == <<sm_web, sm_pc, sm_stack, sm_result, sm_fetched, sm_limit_hits>>
genVars == <<g_pc, g_precheck, live_urls, g_futures, g_yielded, live_status,
             staging_status, g_rows, g_sink, g_exit>>
otherVars == <<decideVars, fetchVars, smVars, genVars>>
vars == <<mainVars, otherVars>>

(***************************************************************************)
(* Optional values and text                                                *)
(***************************************************************************)
None == <<>>
Some(v) == <<v>>

\* Python's `x or ""` for an Optional text x
OrEmpty(x) == IF x = None THEN <<>> ELSE x[1]

Whitespace == {" ", "\t", "\n"}

UpperLetters == <<"A","B","C","D","E","F","G","H","I","J","K","L","M",
                  "N","O","P","Q","R","S","T","U","V","W","X","Y","Z">>
LowerLetters == <<"a","b","c","d","e","f","g","h","i","j","k","l","m",
                  "n","o","p","q","r","s","t","u","v","w","x","y","z">>

LowerChar(c) ==
    IF \E i \in 1..Len(UpperLetters) : UpperLetters[i] = c
    THEN LowerLetters[CHOOSE i \in 1..Len(UpperLetters) : UpperLetters[i] = c]
    ELSE c

\* str.lower()
Lower(s) == [i \in 1..Len(s) |-> LowerChar(s[i])]

\* str.strip(): drop leading and trailing whitespace
Strip(s) ==
    LET keep == {i \in 1..Len(s) : s[i] \notin Whitespace}
    IN  IF keep = {} THEN <<>>
        ELSE LET lo == CHOOSE i \in keep : \A j \in keep : i <= j
                 hi == CHOOSE i \in keep : \A j \in keep : j <= i
             IN  SubSeq(s, lo, hi)

\* Python's `token in s` for strings
Contains(token, s) ==
    \E i \in 1..(Len(s) - Len(token) + 1) : SubSeq(s, i, i + Len(token) - 1) = token

(***************************************************************************)
(* The literal tokens of decide_page_exists_value                          *)
(***************************************************************************)
TokInScope == <<"i","n"," ","s","c","o","p","e">>
TokAddedToInitialScope ==
    <<"a","d","d","e","d"," ","t","o"," ","i","n","i","t","i","a","l"," ","s","c","o","p","e">>
TokNeededForLaunch ==
    <<"n","e","e","d","e","d"," ","f","o","r"," ","l","a","u","n","c","h">>
TokNotInScope == <<"n","o","t"," ","i","n"," ","s","c","o","p","e">>
TokNotNeeded == <<"n","o","t"," ","n","e","e","d","e","d">>
TokYes == <<"y","e","s">>
TokY == <<"y">>
TokTrue == <<"t","r","u","e">>

is_in_scope(scope_value, status_value) ==
    LET scope_normalized == Lower(Strip(OrEmpty(scope_value)))
        status_normalized == Lower(Strip(OrEmpty(status_value)))
    IN  \/ Contains(TokInScope, scope_normalized)
        \/ \E token \in {TokInScope, TokAddedToInitialScope, TokNeededForLaunch} :
               Contains(token, status_normalized)

not_needed(scope_value, status_value) ==
    LET scope_normalized == Lower(Strip(OrEmpty(scope_value)))
        status_normalized == Lower(Strip(OrEmpty(status_value)))
    IN  \/ Contains(TokNotInScope, scope_normalized)
        \/ Contains(TokNotNeeded, status_normalized)

url_matches_normalized(url_matches_value) == Lower(Strip(OrEmpty(url_matches_value)))

\* a slip in the precedence of lines 131/140: the in-scope test tried first
ScopeAnswer_InScopeFirst(scope_value, status_value) ==
    IF is_in_scope(scope_value, status_value) THEN "404"
    ELSE "No"

\* lines 131 and 140: the scope-driven answer
ScopeAnswer(scope_value, status_value) ==
    IF not_needed(scope_value, status_value) THEN "No"
    ELSE IF is_in_scope(scope_value, status_value) THEN "404" ELSE "No"

\* a slip: the not-needed signal consulted before the 2xx-3xx test
decide_NotNeededFirst(status_code, scope_value, status_value, url_matches_value) ==
    IF not_needed(scope_value, status_value) THEN "No"
    ELSE IF status_code = None THEN ScopeAnswer(scope_value, status_value)
    ELSE IF 200 <= status_code[1] /\ status_code[1] < 400 THEN "Yes"
    ELSE IF status_code[1] = 404 THEN
        IF url_matches_normalized(url_matches_value) \in {TokYes, TokY, TokTrue}
        THEN "No"
        ELSE ScopeAnswer(scope_value, status_value)
    ELSE "No"

\* a slip: the url-matches text compared without strip().lower()
decide_RawUrlMatches(status_code, scope_value, status_value, url_matches_value) ==
    IF status_code = None THEN ScopeAnswer(scope_value, status_value)
    ELSE IF 200 <= status_code[1] /\ status_code[1] < 400 THEN "Yes"
    ELSE IF status_code[1] = 404 THEN
        IF OrEmpty(url_matches_value) \in {TokYes, TokY, TokTrue}
        THEN "No"
        ELSE ScopeAnswer(scope_value, status_value)
    ELSE "No"

\* a slip: the url-matches override tested as a substring, not as equality
decide_UrlMatchesSubstring(status_code, scope_value, status_value, url_matches_value) ==
    IF status_code = None THEN ScopeAnswer(scope_value, status_value)
    ELSE IF 200 <= status_code[1] /\ status_code[1] < 400 THEN "Yes"
    ELSE IF status_code[1] = 404 THEN
        IF \E t \in {TokYes, TokY, TokTrue} :
               Contains(t, url_matches_normalized(url_matches_value))
        THEN "No"
        ELSE ScopeAnswer(scope_value, status_value)
    ELSE "No"

\* a slip: every 4xx handled like 404
decide_Any4xx(status_code, scope_value, status_value, url_matches_value) ==
    IF status_code = None THEN ScopeAnswer(scope_value, status_value)
    ELSE IF 200 <= status_code[1] /\ status_code[1] < 400 THEN "Yes"
    ELSE IF 400 <= status_code[1] /\ status_code[1] < 500 THEN
        IF url_matches_normalized(url_matches_value) \in {TokYes, TokY, TokTrue}
        THEN "No"
        ELSE ScopeAnswer(scope_value, status_value)
    ELSE "No"

\* lines 110-142
decide_page_exists_value(status_code, scope_value, status_value, url_matches_value) ==
    IF status_code = None THEN ScopeAnswer(scope_value, status_value)
    ELSE IF 200 <= status_code[1] /\ status_code[1] < 400 THEN "Yes"
    ELSE IF status_code[1] = 404 THEN
        IF url_matches_normalized(url_matches_value) \in {TokYes, TokY, TokTrue}
        THEN "No"
        ELSE ScopeAnswer(scope_value, status_value)
    ELSE "No"

(***************************************************************************)
(* Sample field texts                                                      *)
(***************************************************************************)
TxtEmpty == <<>>
TxtBlank == <<" "," ">>
TxtInScope == <<"I","n"," ","S","c","o","p","e">>
TxtNotInScope == <<"N","o","t"," ","i","n"," ","S","c","o","p","e">>
TxtInScopePadded == <<" ","I","N"," ","S","C","O","P","E","\t">>
TxtOutOfScope == <<"O","u","t"," ","o","f"," ","S","c","o","p","e">>
TxtNeededForLaunch == <<"N","e","e","d","e","d"," ","f","o","r"," ","L","a","u","n","c","h">>
TxtNotNeededForLaunch ==
    <<"N","o","t"," ","n","e","e","d","e","d"," ","f","o","r"," ","l","a","u","n","c","h">>
TxtAddedToInitialScope ==
    <<"A","d","d","e","d"," ","t","o"," ","I","n","i","t","i","a","l"," ","S","c","o","p","e">>
TxtDone == <<"D","o","n","e">>
TxtYes == <<"Y","e","s">>
TxtYPadded == <<" ","Y"," ">>
TxtTrueUpper == <<"T","R","U","E">>
TxtNo == <<"N","o">>
TxtYesPlease == <<"y","e","s"," ","p","l","e","a","s","e">>
TxtPageDoesNotExist ==
    <<"P","a","g","e"," ","D","o","e","s"," ","N","o","t"," ","E","x","i","s","t">>
TxtUrlA == <<"s",".","i","o","/","a">>
TxtUrlAPadded == <<" ","s",".","i","o","/","a"," ">>

(***************************************************************************)
(* The classifier on its own: every argument drawn from a bounded set      *)
(***************************************************************************)
\* every status an HTTP response can carry here, and None
StatusCodes == {None} \cup {Some(c) : c \in 100..599}
ScopeTexts == {None, Some(TxtEmpty), Some(TxtInScope), Some(TxtNotInScope),
               Some(TxtInScopePadded), Some(TxtOutOfScope)}
StatusTexts == {None, Some(TxtEmpty), Some(TxtNeededForLaunch), Some(TxtNotNeededForLaunch),
                Some(TxtAddedToInitialScope), Some(TxtInScope), Some(TxtDone)}
UrlMatchesTexts == {None, Some(TxtEmpty), Some(TxtYes), Some(TxtYPadded), Some(TxtTrueUpper),
                    Some(TxtNo), Some(TxtYesPlease), Some(TxtPageDoesNotExist)}

NoSink == [opened |-> FALSE, header |-> <<>>, rows |-> <<>>]

FetchOff ==
    /\ f_in = [url |-> <<>>,
               net |-> [kind |-> "off", has_status |-> FALSE, code |-> None, msg |-> ""]]
    /\ f_out = None
    /\ f_requests = 0

SitemapOff ==
    /\ sm_web = <<>>
    /\ sm_pc = "off"
    /\ sm_stack = <<>>
    /\ sm_result = <<>>
    /\ sm_fetched = <<>>
    /\ sm_limit_hits = 0

GenOff ==
    /\ g_pc = "off"
    /\ g_precheck = FALSE
    /\ live_urls = <<>>
    /\ g_futures = <<>>
    /\ g_yielded = {}
    /\ live_status = <<>>
    /\ staging_status = <<>>
    /\ g_rows = <<>>
    /\ g_sink = NoSink
    /\ g_exit = None

MainOff ==
    /\ pc = "off"
    /\ interrupted = FALSE
    /\ input_file = None
    /\ args_concurrency = 0
    /\ concurrency = 0
    /\ fieldnames = <<>>
    /\ rows = <<>>
    /\ urls_to_check = <<>>
    /\ work_queue = <<>>
    /\ num_threads = 0
    /\ idle_sem = 0
    /\ running = {}
    /\ futures = <<>>
    /\ yielded = {}
    /\ index_to_result = <<>>
    /\ completed = 0
    /\ classify_i = 0
    /\ sink = [opened |-> FALSE, header |-> <<>>, rows |-> <<>>]
    /\ write_calls = 0
    /\ exit_code = None

DecideInit ==
    /\ MainOff
    /\ FetchOff
    /\ SitemapOff
    /\ GenOff
    /\ d_in \in [status_code : StatusCodes, scope_value : ScopeTexts,
                 status_value : StatusTexts, url_matches_value : UrlMatchesTexts]
    /\ d_out = None

Decide ==
    /\ pc = "off"
    /\ d_out = None
    /\ d_out' = Some(decide_page_exists_value(d_in.status_code, d_in.scope_value,
                                             d_in.status_value, d_in.url_matches_value))
    /\ UNCHANGED <<mainVars, d_in, fetchVars, smVars, genVars>>

DecideNext == Decide

SpecDecide == DecideInit /\ [][DecideNext]_vars

(***************************************************************************)
(* fetch_status: the probe, as a function of the URL and of what the       *)
(* network does                                                            *)
(***************************************************************************)
CrawlResult(url, status_code, error) ==
    [url |-> url, status_code |-> status_code, error |-> error]

\* what urlopen does for one request: a response (line 155), or one of the raises
\* of lines 157-162; msg is the text the raised exception carries
NetBehaviours ==
    {[kind |-> "response", has_status |-> TRUE, code |-> Some(200), msg |-> ""],
     [kind |-> "HTTPError", has_status |-> TRUE, code |-> Some(404), msg |-> "Not Found"],
     [kind |-> "URLError", has_status |-> FALSE, code |-> None, msg |-> "timed out"]}

\* str(e) of urllib.error.HTTPError, of urllib.error.URLError, of any other exception
StrOfException(net) ==
    IF net.kind = "HTTPError" THEN "HTTP Error " \o ToString(net.code[1]) \o ": " \o net.msg
    ELSE IF net.kind = "URLError" THEN "<urlopen error " \o net.msg \o ">"
    ELSE net.msg

\* a slip: no handler for exceptions other than HTTPError and URLError
fetch_status_NoCatchAll(url, net) ==
    IF url = <<>> THEN CrawlResult(url, None, Some("empty-url"))
    ELSE IF net.kind = "response"
         THEN CrawlResult(url, IF net.has_status THEN net.code ELSE Some(200), None)
    ELSE IF net.kind = "HTTPError" THEN CrawlResult(url, net.code, Some(StrOfException(net)))
    ELSE IF net.kind = "URLError" THEN CrawlResult(url, None, Some(StrOfException(net)))
    ELSE [raised |-> net.msg]

\* lines 145-162
fetch_status(url, net) ==
    IF url = <<>> THEN CrawlResult(url, None, Some("empty-url"))
    ELSE IF net.kind = "response"
         THEN CrawlResult(url, IF net.has_status THEN net.code ELSE Some(200), None)
    ELSE IF net.kind = "HTTPError" THEN CrawlResult(url, net.code, Some(StrOfException(net)))
    ELSE IF net.kind = "URLError" THEN CrawlResult(url, None, Some(StrOfException(net)))
    ELSE CrawlResult(url, None, Some(StrOfException(net)))

\* the requests one call of fetch_status sends: none for the empty URL (lines 150-151)
RequestsSent(url) == IF url = <<>> THEN 0 ELSE 1

(***************************************************************************)
(* Rows and the input file                                                 *)
(***************************************************************************)
Range(f) == {f[x] : x \in DOMAIN f}

FieldLink == "Theoretical Staging Link"
FieldExists == "Page Exists?"
FieldMatches == "URL Matches"
FieldScope == "Scope"
FieldStatus == "Status"

FullFields == <<FieldLink, FieldExists, FieldMatches, FieldScope, FieldStatus>>

\* the headers an input file may carry: complete, or lacking a required column
FieldnameChoices ==
    {FullFields, <<FieldExists, FieldScope>>, <<FieldLink, FieldStatus>>}

MkRow(link, exists, matches, scope, status) ==
    (FieldLink :> link) @@ (FieldExists :> exists) @@ (FieldMatches :> matches)
        @@ (FieldScope :> scope) @@ (FieldStatus :> status)

\* the rows an input file is made of
RowKinds ==
    {MkRow(Some(TxtEmpty), Some(TxtYes), Some(TxtEmpty), Some(TxtNotInScope), Some(TxtEmpty)),
     MkRow(Some(TxtBlank), Some(TxtEmpty), Some(TxtEmpty), Some(TxtInScope), Some(TxtEmpty)),
     MkRow(Some(TxtUrlAPadded), Some(TxtNo), Some(TxtEmpty), Some(TxtEmpty), Some(TxtNeededForLaunch))}

MaxRows == 3
MaxConcurrency == 2

SeqsUpTo(S, n) == UNION {[1..k -> S] : k \in 0..n}

\* csv.DictReader keys every row by the header
RowOver(names, row) == [f \in Range(names) |-> row[f]]

InputFiles ==
    {[fieldnames |-> names, rows |-> [i \in DOMAIN rs |-> RowOver(names, rs[i])]] :
        names \in FieldnameChoices, rs \in SeqsUpTo(RowKinds, MaxRows)}

ConcurrencyChoices == (-1)..MaxConcurrency

\* dict.get(key, default)
RowGet(row, key, default) == IF key \in DOMAIN row THEN row[key] ELSE default

\* a slip: the row rebuilt around the new value, its other values dropped
RowSet_Replace(row, key, value) ==
    [f \in DOMAIN row \cup {key} |-> IF f = key THEN value ELSE None]

\* row[key] = value
RowSet(row, key, value) ==
    [f \in DOMAIN row \cup {key} |-> IF f = key THEN value ELSE row[f]]

\* a slip: the target URL taken without strip()
RowUrl_NoStrip(row) == OrEmpty(RowGet(row, FieldLink, None))

\* line 367
RowUrl(row) == Strip(OrEmpty(RowGet(row, FieldLink, None)))

\* lines 365-369
RECURSIVE BuildUrlsToCheck(_, _)
BuildUrlsToCheck(rs, idx) ==
    IF idx >= Len(rs) THEN <<>>
    ELSE (IF RowUrl(rs[idx + 1]) # <<>> THEN <<(<<idx, RowUrl(rs[idx + 1])>>)>> ELSE <<>>)
             \o BuildUrlsToCheck(rs, idx + 1)

\* the classification symbol as the text stored in the row
Chars(symbol) ==
    IF symbol = "Yes" THEN <<"Y","e","s">>
    ELSE IF symbol = "404" THEN <<"4","0","4">>
    ELSE <<"N","o">>

\* csv.DictWriter.writerow: the values in header order, None written as ""
RowOut(names, row) == [j \in 1..Len(names) |-> OrEmpty(RowGet(row, names[j], None))]

\* a slip: the caller's limit used as it comes
ClampConcurrency_Unclamped(c) == c

\* line 347
ClampConcurrency(c) == IF c > 1 THEN c ELSE 1

NewFuture(url) == [url |-> url, state |-> "PENDING", result |-> None, exception |-> None]

DecideOff ==
    /\ d_in = [status_code |-> None, scope_value |-> None, status_value |-> None,
               url_matches_value |-> None]
    /\ d_out = None

Init ==
    /\ pc = "setup"
    /\ interrupted = FALSE
    /\ input_file \in {None} \cup {Some(f) : f \in InputFiles}
    /\ args_concurrency \in ConcurrencyChoices
    /\ concurrency = 0
    /\ fieldnames = <<>>
    /\ rows = <<>>
    /\ urls_to_check = <<>>
    /\ work_queue = <<>>
    /\ num_threads = 0
    /\ idle_sem = 0
    /\ running = {}
    /\ futures = <<>>
    /\ yielded = {}
    /\ index_to_result = <<>>
    /\ completed = 0
    /\ classify_i = 0
    /\ sink = NoSink
    /\ write_calls = 0
    /\ exit_code = None
    /\ DecideOff
    /\ FetchOff
    /\ SitemapOff
    /\ GenOff

Alive == ~interrupted /\ pc # "off"

\* lines 344-349
Setup ==
    /\ Alive /\ pc = "setup"
    /\ concurrency' = ClampConcurrency(args_concurrency)
    /\ pc' = "read"
    /\ UNCHANGED <<interrupted, input_file, args_concurrency, fieldnames, rows, urls_to_check,
                   poolVars, collectVars, classify_i, sink, write_calls, exit_code, otherVars>>

\* lines 353-357
ReadCsv ==
    /\ Alive /\ pc = "read"
    /\ IF input_file = None
       THEN /\ exit_code' = Some(2)
            /\ pc' = "done"
            /\ UNCHANGED <<rows, fieldnames>>
       ELSE /\ rows' = input_file[1].rows
            /\ fieldnames' = input_file[1].fieldnames
            /\ pc' = "check_columns"
            /\ UNCHANGED exit_code
    /\ UNCHANGED <<interrupted, input_file, args_concurrency, concurrency, urls_to_check,
                   poolVars, collectVars, classify_i, sink, write_calls, otherVars>>

\* a slip: the header accepted as it comes
CheckColumns_NoCheck ==
    /\ Alive /\ pc = "check_columns"
    /\ pc' = "select"
    /\ UNCHANGED <<interrupted, input_file, args_concurrency, concurrency, fieldnames, rows,
                   urls_to_check, poolVars, collectVars, classify_i, sink, write_calls,
                   exit_code, otherVars>>

\* lines 359-363
CheckColumns ==
    /\ Alive /\ pc = "check_columns"
    /\ LET missing == {c \in {FieldLink, FieldExists} : c \notin Range(fieldnames)}
       IN  IF missing # {}
           THEN exit_code' = Some(2) /\ pc' = "done"
           ELSE pc' = "select" /\ UNCHANGED exit_code
    /\ UNCHANGED <<interrupted, input_file, args_concurrency, concurrency, fieldnames, rows,
                   urls_to_check, poolVars, collectVars, classify_i, sink, write_calls,
                   otherVars>>

\* lines 365-372
SelectUrls ==
    /\ Alive /\ pc = "select"
    /\ urls_to_check' = BuildUrlsToCheck(rows, 0)
    /\ pc' = IF urls_to_check' # <<>> THEN "pool" ELSE "classify"
    /\ UNCHANGED <<interrupted, input_file, args_concurrency, concurrency, fieldnames, rows,
                   poolVars, collectVars, classify_i, sink, write_calls, exit_code, otherVars>>

\* line 377: ThreadPoolExecutor(max_workers=concurrency) raises ValueError for
\* max_workers <= 0, which nothing catches
EnterPool ==
    /\ Alive /\ pc = "pool"
    /\ IF concurrency <= 0
       THEN exit_code' = Some(1) /\ pc' = "done"
       ELSE pc' = "submit" /\ UNCHANGED exit_code
    /\ UNCHANGED <<interrupted, input_file, args_concurrency, concurrency, fieldnames, rows,
                   urls_to_check, poolVars, collectVars, classify_i, sink, write_calls,
                   otherVars>>

\* lines 378-381, one executor.submit: the work item is queued and, unless a worker
\* has signalled idle, a thread is spawned while fewer than max_workers exist
Submit ==
    /\ Alive /\ pc = "submit"
    /\ LET k == Cardinality(DOMAIN futures) + 1
           idx == urls_to_check[k][1]
           url == urls_to_check[k][2]
       IN  /\ futures' = (idx :> NewFuture(url)) @@ futures
           /\ work_queue' = Append(work_queue, idx)
           /\ IF idle_sem > 0
              THEN idle_sem' = idle_sem - 1 /\ UNCHANGED num_threads
              ELSE /\ num_threads' = IF num_threads < concurrency
                                     THEN num_threads + 1 ELSE num_threads
                   /\ UNCHANGED idle_sem
           /\ pc' = IF k = Len(urls_to_check) THEN "collect" ELSE "submit"
    /\ UNCHANGED <<interrupted, input_file, args_concurrency, concurrency, fieldnames, rows,
                   urls_to_check, running, collectVars, classify_i, sink, write_calls,
                   exit_code, otherVars>>

\* a worker thread without a work item takes the oldest one of the queue
WorkerStart ==
    /\ Alive
    /\ work_queue # <<>>
    /\ Cardinality(running) < num_threads
    /\ running' = running \cup {Head(work_queue)}
    /\ futures' = [futures EXCEPT ![Head(work_queue)].state = "RUNNING"]
    /\ work_queue' = Tail(work_queue)
    /\ UNCHANGED <<pc, interrupted, input_file, args_concurrency, concurrency, fieldnames,
                   rows, urls_to_check, num_threads, idle_sem, collectVars, classify_i,
                   sink, write_calls, exit_code, otherVars>>

\* the work item fetch_status(url, timeout, user_agent) returns
WorkerReturn ==
    /\ Alive
    /\ \E idx \in running, net \in NetBehaviours :
        /\ futures' = [futures EXCEPT ![idx].state = "FINISHED",
                                      ![idx].result = Some(fetch_status(futures[idx].url, net))]
        /\ running' = running \ {idx}
    /\ idle_sem' = idle_sem + 1
    /\ UNCHANGED <<pc, interrupted, input_file, args_concurrency, concurrency, fieldnames,
                   rows, urls_to_check, work_queue, num_threads, collectVars, classify_i,
                   sink, write_calls, exit_code, otherVars>>

\* the work item ends in an exception, which the future keeps
WorkerRaise ==
    /\ Alive
    /\ \E idx \in running :
        /\ futures' = [futures EXCEPT ![idx].state = "FINISHED",
                                      ![idx].exception = Some("fault")]
        /\ running' = running \ {idx}
    /\ idle_sem' = idle_sem + 1
    /\ UNCHANGED <<pc, interrupted, input_file, args_concurrency, concurrency, fieldnames,
                   rows, urls_to_check, work_queue, num_threads, collectVars, classify_i,
                   sink, write_calls, exit_code, otherVars>>

\* a slip: outcomes keyed by arrival order instead of by the row's index
Collect_ByArrival ==
    /\ Alive /\ pc = "collect"
    /\ \E idx \in DOMAIN futures \ yielded :
        /\ futures[idx].state = "FINISHED"
        /\ LET result == IF futures[idx].exception # None
                         THEN CrawlResult(<<>>, None, futures[idx].exception)
                         ELSE futures[idx].result[1]
           IN  index_to_result' =
                   [i \in DOMAIN index_to_result \cup {completed} |->
                       IF i = completed THEN result ELSE index_to_result[i]]
        /\ yielded' = yielded \cup {idx}
    /\ completed' = completed + 1
    /\ UNCHANGED <<pc, interrupted, input_file, args_concurrency, concurrency, fieldnames,
                   rows, urls_to_check, poolVars, classify_i, sink, write_calls, exit_code,
                   otherVars>>

\* a slip: future.result() called without the try/except of lines 386-389
Collect_NoCatch ==
    /\ Alive /\ pc = "collect"
    /\ \E idx \in DOMAIN futures \ yielded :
        /\ futures[idx].state = "FINISHED"
        /\ IF futures[idx].exception # None
           THEN /\ pc' = "done"
                /\ exit_code' = Some(1)
                /\ UNCHANGED <<index_to_result, completed>>
           ELSE /\ index_to_result' =
                       [i \in DOMAIN index_to_result \cup {idx} |->
                           IF i = idx THEN futures[idx].result[1] ELSE index_to_result[i]]
                /\ completed' = completed + 1
                /\ UNCHANGED <<pc, exit_code>>
        /\ yielded' = yielded \cup {idx}
    /\ UNCHANGED <<interrupted, input_file, args_concurrency, concurrency, fieldnames,
                   rows, urls_to_check, poolVars, classify_i, sink, write_calls,
                   otherVars>>

\* a slip: the outcome stored for every row that carries the probed URL
Collect_ByUrl ==
    /\ Alive /\ pc = "collect"
    /\ \E idx \in DOMAIN futures \ yielded :
        /\ futures[idx].state = "FINISHED"
        /\ LET result == IF futures[idx].exception # None
                         THEN CrawlResult(<<>>, None, futures[idx].exception)
                         ELSE futures[idx].result[1]
               same == {j \in DOMAIN futures : futures[j].url = futures[idx].url}
           IN  index_to_result' =
                   [i \in DOMAIN index_to_result \cup same |->
                       IF i \in same THEN result ELSE index_to_result[i]]
        /\ yielded' = yielded \cup {idx}
    /\ completed' = completed + 1
    /\ UNCHANGED <<pc, interrupted, input_file, args_concurrency, concurrency, fieldnames,
                   rows, urls_to_check, poolVars, classify_i, sink, write_calls, exit_code,
                   otherVars>>

\* lines 384-391, one turn of the as_completed loop
Collect ==
    /\ Alive /\ pc = "collect"
    /\ \E idx \in DOMAIN futures \ yielded :
        /\ futures[idx].state = "FINISHED"
        /\ LET result == IF futures[idx].exception # None
                         THEN CrawlResult(<<>>, None, futures[idx].exception)
                         ELSE futures[idx].result[1]
           IN  index_to_result' =
                   [i \in DOMAIN index_to_result \cup {idx} |->
                       IF i = idx THEN result ELSE index_to_result[i]]
        /\ yielded' = yielded \cup {idx}
    /\ completed' = completed + 1
    /\ UNCHANGED <<pc, interrupted, input_file, args_concurrency, concurrency, fieldnames,
                   rows, urls_to_check, poolVars, classify_i, sink, write_calls, exit_code,
                   otherVars>>

\* a slip: the loop left after the first outcome, the pool not waited for
ExitPool_Early ==
    /\ Alive /\ pc = "collect"
    /\ yielded # {}
    /\ pc' = "classify"
    /\ UNCHANGED <<interrupted, input_file, args_concurrency, concurrency, fieldnames, rows,
                   urls_to_check, poolVars, collectVars, classify_i, sink, write_calls,
                   exit_code, otherVars>>

\* as_completed is exhausted and the with block ends: shutdown(wait=True) joins the
\* worker threads
ExitPool ==
    /\ Alive /\ pc = "collect"
    /\ yielded = DOMAIN futures
    /\ num_threads' = 0
    /\ idle_sem' = 0
    /\ pc' = "classify"
    /\ UNCHANGED <<interrupted, input_file, args_concurrency, concurrency, fieldnames, rows,
                   urls_to_check, work_queue, running, futures, collectVars, classify_i,
                   sink, write_calls, exit_code, otherVars>>

\* lines 408-409
StatusCodeFor(idx) ==
    IF idx \in DOMAIN index_to_result THEN index_to_result[idx].status_code ELSE None

\* a slip: a row without a probe outcome left as it was read
ClassifyRow_SkipUnprobed ==
    /\ Alive /\ pc = "classify"
    /\ classify_i < Len(rows)
    /\ LET idx == classify_i
           row == rows[idx + 1]
           page_exists_value ==
               decide_page_exists_value(StatusCodeFor(idx),
                                        RowGet(row, FieldScope, Some(<<>>)),
                                        RowGet(row, FieldStatus, Some(<<>>)),
                                        RowGet(row, FieldMatches, Some(<<>>)))
       IN  rows' = IF idx \in DOMAIN index_to_result
                   THEN [rows EXCEPT ![idx + 1] =
                            RowSet(row, FieldExists, Some(Chars(page_exists_value)))]
                   ELSE rows
    /\ classify_i' = classify_i + 1
    /\ UNCHANGED <<pc, interrupted, input_file, args_concurrency, concurrency, fieldnames,
                   urls_to_check, poolVars, collectVars, sink, write_calls, exit_code,
                   otherVars>>

\* lines 404-426, one turn of the classification loop
ClassifyRow ==
    /\ Alive /\ pc = "classify"
    /\ classify_i < Len(rows)
    /\ LET idx == classify_i
           row == rows[idx + 1]
           page_exists_value ==
               decide_page_exists_value(StatusCodeFor(idx),
                                        RowGet(row, FieldScope, Some(<<>>)),
                                        RowGet(row, FieldStatus, Some(<<>>)),
                                        RowGet(row, FieldMatches, Some(<<>>)))
       IN  rows' = [rows EXCEPT ![idx + 1] =
                       RowSet(row, FieldExists, Some(Chars(page_exists_value)))]
    /\ classify_i' = classify_i + 1
    /\ UNCHANGED <<pc, interrupted, input_file, args_concurrency, concurrency, fieldnames,
                   urls_to_check, poolVars, collectVars, sink, write_calls, exit_code,
                   otherVars>>

\* lines 428-429 and 311-313: the output file is created and the header written
OpenOutput ==
    /\ Alive /\ pc = "classify"
    /\ classify_i = Len(rows)
    /\ write_calls' = write_calls + 1
    /\ sink' = [opened |-> TRUE, header |-> fieldnames, rows |-> <<>>]
    /\ pc' = "write"
    /\ UNCHANGED <<interrupted, input_file, args_concurrency, concurrency, fieldnames, rows,
                   urls_to_check, poolVars, collectVars, classify_i, exit_code, otherVars>>

\* lines 430-432: open() fails
OpenFails ==
    /\ Alive /\ pc = "classify"
    /\ classify_i = Len(rows)
    /\ write_calls' = write_calls + 1
    /\ exit_code' = Some(3)
    /\ pc' = "done"
    /\ UNCHANGED <<interrupted, input_file, args_concurrency, concurrency, fieldnames, rows,
                   urls_to_check, poolVars, collectVars, classify_i, sink, otherVars>>

\* lines 314-315, one writer.writerow
WriteRow ==
    /\ Alive /\ pc = "write"
    /\ Len(sink.rows) < Len(rows)
    /\ sink' = [sink EXCEPT !.rows = Append(@, RowOut(fieldnames, rows[Len(sink.rows) + 1]))]
    /\ UNCHANGED <<pc, interrupted, input_file, args_concurrency, concurrency, fieldnames,
                   rows, urls_to_check, poolVars, collectVars, classify_i, write_calls,
                   exit_code, otherVars>>

\* lines 430-432: a write fails after the file was opened
WriteFails ==
    /\ Alive /\ pc = "write"
    /\ exit_code' = Some(3)
    /\ pc' = "done"
    /\ UNCHANGED <<interrupted, input_file, args_concurrency, concurrency, fieldnames, rows,
                   urls_to_check, poolVars, collectVars, classify_i, sink, write_calls,
                   otherVars>>

\* lines 434-454: the file is closed and main returns 0
Finish ==
    /\ Alive /\ pc = "write"
    /\ Len(sink.rows) = Len(rows)
    /\ exit_code' = Some(0)
    /\ pc' = "done"
    /\ UNCHANGED <<interrupted, input_file, args_concurrency, concurrency, fieldnames, rows,
                   urls_to_check, poolVars, collectVars, classify_i, sink, write_calls,
                   otherVars>>

\* the process is killed: its memory is gone, the files stay as they are
Kill ==
    /\ Alive /\ pc # "done"
    /\ interrupted' = TRUE
    /\ args_concurrency' = 0
    /\ concurrency' = 0
    /\ fieldnames' = <<>>
    /\ rows' = <<>>
    /\ urls_to_check' = <<>>
    /\ work_queue' = <<>>
    /\ num_threads' = 0
    /\ idle_sem' = 0
    /\ running' = {}
    /\ futures' = <<>>
    /\ yielded' = {}
    /\ index_to_result' = <<>>
    /\ completed' = 0
    /\ classify_i' = 0
    /\ UNCHANGED <<pc, input_file, sink, write_calls, exit_code, otherVars>>

Next ==
    \/ Setup \/ ReadCsv \/ CheckColumns \/ SelectUrls \/ EnterPool \/ Submit
    \/ WorkerStart \/ WorkerReturn \/ WorkerRaise \/ Collect \/ ExitPool
    \/ ClassifyRow \/ OpenOutput \/ OpenFails \/ WriteRow \/ WriteFails \/ Finish
    \/ Kill

Spec == Init /\ [][Next]_vars

\* the steps of main()'s own thread
MainStep ==
    \/ Setup \/ ReadCsv \/ CheckColumns \/ SelectUrls \/ EnterPool \/ Submit
    \/ Collect \/ ExitPool \/ ClassifyRow \/ OpenOutput \/ OpenFails
    \/ WriteRow \/ WriteFails \/ Finish

\* The pool's threads are scheduled: a free worker takes queued work, and a started
\* probe ends (a response, an error or its timeout).
FairSpec ==
    /\ Spec
    /\ WF_vars(WorkerStart)
    /\ WF_vars(WorkerReturn \/ WorkerRaise)

(***************************************************************************)
(* fetch_status alone, over every URL and every behaviour of the network   *)
(***************************************************************************)
\* the URLs a probe is called with: empty, blank, a URL
FetchUrls == {TxtEmpty, TxtBlank, TxtUrlA}

\* the texts an exception carries
ReasonTexts == {"", "timed out", "Name or service not known"}
ExceptionTexts == {"timed out", "unknown url type"}

\* what urlopen does: an HTTP response with any status code; a response of a
\* handler that is not HTTP, whose status attribute is missing or None; an HTTPError
\* for a response the opener does not accept; a URLError; any other exception
FetchNetBehaviours ==
    {[kind |-> "response", has_status |-> TRUE, code |-> Some(c), msg |-> ""] :
         c \in 100..599}
    \cup {[kind |-> "response", has_status |-> b, code |-> None, msg |-> ""] : b \in BOOLEAN}
    \cup {[kind |-> "HTTPError", has_status |-> TRUE, code |-> Some(c), msg |-> t] :
              c \in 300..599, t \in ReasonTexts}
    \cup {[kind |-> "URLError", has_status |-> FALSE, code |-> None, msg |-> t] :
              t \in ReasonTexts}
    \cup {[kind |-> "Exception", has_status |-> FALSE, code |-> None, msg |-> t] :
              t \in ExceptionTexts}

FetchInit ==
    /\ MainOff
    /\ DecideOff
    /\ SitemapOff
    /\ GenOff
    /\ f_in \in [url : FetchUrls, net : FetchNetBehaviours]
    /\ f_out = None
    /\ f_requests = 0

\* one call of fetch_status
FetchStatus ==
    /\ f_in.net.kind # "off"
    /\ f_out = None
    /\ f_out' = Some(fetch_status(f_in.url, f_in.net))
    /\ f_requests' = f_requests + RequestsSent(f_in.url)
    /\ UNCHANGED <<mainVars, decideVars, smVars, genVars, f_in>>

FetchNext == FetchStatus

SpecFetch == FetchInit /\ [][FetchNext]_vars

(***************************************************************************)
(* Sitemap resolution: fetch_sitemap_urls and the recursive expansion of   *)
(* parse_sitemap_content, one urlopen per step                             *)
(***************************************************************************)
TxtUrlB == <<"s",".","i","o","/","B">>

\* the code points of the characters of the sample URLs: str comparison orders by them
CodePoint(c) ==
    CASE c = " " -> 32 [] c = "." -> 46 [] c = "/" -> 47 [] c = "B" -> 66
      [] c = "?" -> 63 [] c = "a" -> 97 [] c = "i" -> 105 [] c = "o" -> 111
      [] c = "s" -> 115 [] c = "x" -> 120
      [] OTHER -> 0

\* s < t for str
RECURSIVE TextLess(_, _)
TextLess(s, t) ==
    IF t = <<>> THEN FALSE
    ELSE IF s = <<>> THEN TRUE
    ELSE IF s[1] = t[1] THEN TextLess(Tail(s), Tail(t))
    ELSE CodePoint(s[1]) < CodePoint(t[1])

\* sorted(S) for a set of str
RECURSIVE SortedOf(_)
SortedOf(S) ==
    IF S = {} THEN <<>>
    ELSE LET least == CHOOSE x \in S : \A y \in S \ {x} : TextLess(x, y)
         IN  <<least>> \o SortedOf(S \ {least})

\* a slip: the collected list returned as it is
sorted_set_AsCollected(urls) == urls

\* line 233: sorted(set(urls))
sorted_set(urls) == SortedOf(Range(urls))

\* the documents of the network. kind is what urlopen and ET.fromstring make of the
\* URL: "unreachable" (urlopen raises), "malformed" (ParseError), "urlset",
\* "sitemapindex", or "other" (another root tag). urls are the loc texts of the url
\* entries and children the documents named by the loc texts of the sitemap
\* entries, None standing for an entry without loc or with an empty one.
UrlsetDoc(locs) == [kind |-> "urlset", urls |-> locs, children |-> <<>>]
IndexDoc(refs) == [kind |-> "sitemapindex", urls |-> <<>>, children |-> refs]
PlainDoc(kind) == [kind |-> kind, urls |-> <<>>, children |-> <<>>]

\* the URL fetch_sitemap_urls opens, and the other sitemap URLs of the site
Top == "top"
DocNames == {Top, "a", "b"}

MaxEntries == 2
MaxDepth == 3

LeafDocs ==
    {PlainDoc("unreachable"), PlainDoc("malformed"), PlainDoc("other"),
     UrlsetDoc(<<>>),
     UrlsetDoc(<<Some(TxtUrlB)>>),
     UrlsetDoc(<<Some(TxtUrlA), Some(TxtUrlB)>>),
     UrlsetDoc(<<Some(TxtUrlAPadded), None, Some(TxtBlank), Some(TxtEmpty)>>)}

ChildRefs == {None} \cup {Some(d) : d \in DocNames}

\* the documents the top URL may hold, and the ones the others may hold
TopDocs == LeafDocs \cup {IndexDoc(refs) : refs \in SeqsUpTo(ChildRefs, MaxEntries)}
ChainDocs ==
    LeafDocs \cup {IndexDoc(<<Some(Top)>>), IndexDoc(<<Some("b")>>),
                   IndexDoc(<<Some("a"), Some("b")>>)}

Webs ==
    {(Top :> t) @@ ("a" :> a) @@ ("b" :> b) : t \in TopDocs, a \in ChainDocs, b \in ChainDocs}

\* lines 208-212: the stripped loc text of every url entry that has one
RECURSIVE CollectLocs(_)
CollectLocs(locs) ==
    IF locs = <<>> THEN <<>>
    ELSE (IF Head(locs) # None /\ Head(locs)[1] # <<>>
          THEN <<Strip(Head(locs)[1])>> ELSE <<>>)
             \o CollectLocs(Tail(locs))

\* lines 192-213 for a document that is not a sitemap index
ParseLeaf(doc) == IF doc.kind = "urlset" THEN CollectLocs(doc.urls) ELSE <<>>

NewFrame(d) == [doc |-> d, pos |-> 1, urls |-> <<>>]

SitemapInit ==
    /\ MainOff
    /\ DecideOff
    /\ FetchOff
    /\ GenOff
    /\ sm_web \in Webs
    /\ sm_pc = "fetch"
    /\ sm_stack = <<>>
    /\ sm_result = <<>>
    /\ sm_fetched = <<>>
    /\ sm_limit_hits = 0

\* lines 216-233 up to the first call of parse_sitemap_content: the candidate is
\* opened; a failure or a document that is not an index ends the resolution
SmFetchTop ==
    /\ sm_pc = "fetch"
    /\ sm_fetched' = Append(sm_fetched, Top)
    /\ LET doc == sm_web[Top]
       IN  IF doc.kind = "sitemapindex"
           THEN /\ sm_stack' = <<NewFrame(Top)>>
                /\ sm_pc' = "expand"
                /\ UNCHANGED sm_result
           ELSE /\ sm_result' = sorted_set(ParseLeaf(doc))
                /\ sm_pc' = "done"
                /\ UNCHANGED sm_stack
    /\ UNCHANGED <<mainVars, decideVars, fetchVars, genVars, sm_web, sm_limit_hits>>

\* a slip that is a guard: a document already being expanded is not opened again
SmStep_Visited ==
    /\ sm_pc = "expand"
    /\ LET depth == Len(sm_stack)
           frame == sm_stack[depth]
           refs == sm_web[frame.doc].children
           skip == [sm_stack EXCEPT ![depth].pos = @ + 1]
       IN  /\ frame.pos <= Len(refs)
           /\ LET ref == refs[frame.pos]
              IN  IF ref = None \/ (\E k \in 1..depth : ref = Some(sm_stack[k].doc))
                  THEN /\ sm_stack' = skip
                       /\ UNCHANGED <<sm_fetched, sm_limit_hits>>
                  ELSE /\ sm_fetched' = Append(sm_fetched, ref[1])
                       /\ IF sm_web[ref[1]].kind = "unreachable"
                          THEN sm_stack' = skip /\ UNCHANGED sm_limit_hits
                          ELSE IF depth >= MaxDepth
                          THEN sm_stack' = skip /\ sm_limit_hits' = sm_limit_hits + 1
                          ELSE IF sm_web[ref[1]].kind = "sitemapindex"
                          THEN sm_stack' = Append(sm_stack, NewFrame(ref[1]))
                               /\ UNCHANGED sm_limit_hits
                          ELSE sm_stack' = [skip EXCEPT ![depth].urls =
                                               @ \o ParseLeaf(sm_web[ref[1]])]
                               /\ UNCHANGED sm_limit_hits
    /\ UNCHANGED <<mainVars, decideVars, fetchVars, genVars, sm_web, sm_pc, sm_result>>

\* lines 200-207, one turn of the loop over the sitemap entries of the innermost
\* call: the entry's document is opened and parsed by a nested call. The
\* interpreter refuses a call beyond its recursion limit with RecursionError, which
\* the except of line 206 takes like any failure of the entry.
SmStep ==
    /\ sm_pc = "expand"
    /\ LET depth == Len(sm_stack)
           frame == sm_stack[depth]
           refs == sm_web[frame.doc].children
           skip == [sm_stack EXCEPT ![depth].pos = @ + 1]
       IN  /\ frame.pos <= Len(refs)
           /\ LET ref == refs[frame.pos]
              IN  IF ref = None
                  THEN /\ sm_stack' = skip
                       /\ UNCHANGED <<sm_fetched, sm_limit_hits>>
                  ELSE /\ sm_fetched' = Append(sm_fetched, ref[1])
                       /\ IF sm_web[ref[1]].kind = "unreachable"
                          THEN sm_stack' = skip /\ UNCHANGED sm_limit_hits
                          ELSE IF depth >= MaxDepth
                          THEN sm_stack' = skip /\ sm_limit_hits' = sm_limit_hits + 1
                          ELSE IF sm_web[ref[1]].kind = "sitemapindex"
                          THEN sm_stack' = Append(sm_stack, NewFrame(ref[1]))
                               /\ UNCHANGED sm_limit_hits
                          ELSE sm_stack' = [skip EXCEPT ![depth].urls =
                                               @ \o ParseLeaf(sm_web[ref[1]])]
                               /\ UNCHANGED sm_limit_hits
    /\ UNCHANGED <<mainVars, decideVars, fetchVars, genVars, sm_web, sm_pc, sm_result>>

\* line 213 and its caller: the innermost call returns its list, which the calling
\* turn appends to its own (line 205) or fetch_sitemap_urls sorts and returns (233)
SmReturn ==
    /\ sm_pc = "expand"
    /\ LET depth == Len(sm_stack)
           frame == sm_stack[depth]
       IN  /\ frame.pos > Len(sm_web[frame.doc].children)
           /\ IF depth = 1
              THEN /\ sm_result' = sorted_set(frame.urls)
                   /\ sm_stack' = <<>>
                   /\ sm_pc' = "done"
              ELSE /\ sm_stack' = [SubSeq(sm_stack, 1, depth - 1) EXCEPT
                                      ![depth - 1].urls = @ \o frame.urls,
                                      ![depth - 1].pos = @ + 1]
                   /\ UNCHANGED <<sm_result, sm_pc>>
    /\ UNCHANGED <<mainVars, decideVars, fetchVars, genVars, sm_web, sm_fetched,
                   sm_limit_hits>>

SitemapNext == SmFetchTop \/ SmStep \/ SmReturn

SpecSitemap == SitemapInit /\ [][SitemapNext]_vars

\* the resolution runs in main's thread and every urlopen ends (a response, an error
\* or its timeout of 15 seconds)
FairSpecSitemap == SpecSitemap /\ WF_vars(SitemapNext)

(***************************************************************************)
(* Generate mode: main's generate branch and generate_rows_from_sitemap    *)
(***************************************************************************)
FieldLive == "Live Site URL"

\* lines 248-253
GenFieldnames ==
    <<FieldLive, FieldLink, FieldExists, FieldMatches, "Redirect URL", FieldScope, FieldStatus>>

Digits == {"0","1","2","3","4","5","6","7","8","9"}
Letters == Range(UpperLetters) \cup Range(LowerLetters)
SchemeChars == Letters \cup Digits \cup {"+", "-", "."}
Https == <<"h","t","t","p","s",":","/","/">>

\* the first position of seq that holds one of chars, Len(seq) + 1 if none does
FirstOf(seq, chars) ==
    IF \E i \in 1..Len(seq) : seq[i] \in chars
    THEN CHOOSE i \in 1..Len(seq) :
             seq[i] \in chars /\ \A j \in 1..(i - 1) : seq[j] \notin chars
    ELSE Len(seq) + 1

\* urlparse(url).scheme is not empty
HasScheme(url) ==
    LET i == FirstOf(url, {":"})
    IN  /\ 1 < i /\ i <= Len(url)
        /\ url[1] \in Letters
        /\ \A j \in 1..(i - 1) : url[j] \in SchemeChars

\* lines 174-180
ensure_https(url) ==
    IF url = <<>> THEN url
    ELSE IF ~HasScheme(url) THEN Https \o url
    ELSE url

\* str.rstrip("/")
RECURSIVE RStripSlash(_)
RStripSlash(t) ==
    IF t # <<>> /\ t[Len(t)] = "/" THEN RStripSlash(SubSeq(t, 1, Len(t) - 1)) ELSE t

\* urlparse(url): what follows the scheme and the network location, without the
\* fragment
UrlTail(url) ==
    LET rest == IF HasScheme(url) THEN SubSeq(url, FirstOf(url, {":"}) + 1, Len(url)) ELSE url
        tail == IF Len(rest) >= 2 /\ rest[1] = "/" /\ rest[2] = "/"
                THEN LET r == SubSeq(rest, 3, Len(rest))
                     IN  SubSeq(r, FirstOf(r, {"/", "?", "#"}), Len(r))
                ELSE rest
    IN  SubSeq(tail, 1, FirstOf(tail, {"#"}) - 1)
UrlPath(url) == SubSeq(UrlTail(url), 1, FirstOf(UrlTail(url), {"?"}) - 1)
UrlQuery(url) == SubSeq(UrlTail(url), FirstOf(UrlTail(url), {"?"}) + 1, Len(UrlTail(url)))

\* lines 183-189
build_staging_url(live_url, staging_base_host) ==
    LET host == RStripSlash(Strip(staging_base_host))
        live == ensure_https(live_url)
        path == IF UrlPath(live) # <<>> THEN UrlPath(live) ELSE <<"/">>
        query == IF UrlQuery(live) # <<>> THEN <<"?">> \o UrlQuery(live) ELSE <<>>
    IN  Https \o host \o path \o query

\* a slip: the upper end of the range taken in
is_ok_Through400(status_code) ==
    status_code # None /\ 200 <= status_code[1] /\ status_code[1] <= 400

\* lines 236-237
is_ok(status_code) == status_code # None /\ 200 <= status_code[1] /\ status_code[1] < 400

\* --staging-base as given on the command line
StagingBase == <<" ","t",".","i","o","/">>
TxtUrlQuery == <<"s",".","i","o","/","a","?","x">>

\* the sites generate mode is run on: a sitemap that cannot be fetched, one that is
\* not XML, one without entries, an index whose children all fail, and sitemaps
\* with one URL and with two
GenWebs ==
    {(Top :> t) @@ ("a" :> a) @@ ("b" :> b) :
        <<t, a, b>> \in
            {<<PlainDoc("unreachable"), PlainDoc("unreachable"), PlainDoc("unreachable")>>,
             <<PlainDoc("malformed"), PlainDoc("unreachable"), PlainDoc("unreachable")>>,
             <<UrlsetDoc(<<>>), PlainDoc("unreachable"), PlainDoc("unreachable")>>,
             <<IndexDoc(<<Some("a"), Some("b")>>), PlainDoc("unreachable"), PlainDoc("malformed")>>,
             <<UrlsetDoc(<<Some(TxtUrlQuery)>>), PlainDoc("unreachable"), PlainDoc("unreachable")>>,
             <<UrlsetDoc(<<Some(TxtUrlA), Some(TxtBlank)>>), PlainDoc("unreachable"),
               PlainDoc("unreachable")>>,
             <<IndexDoc(<<Some("a"), Some("b")>>), UrlsetDoc(<<Some(TxtUrlA), Some(TxtUrlB)>>),
               UrlsetDoc(<<Some(TxtUrlB)>>)>>}}

\* what urlopen does for one precheck request
GenNetBehaviours ==
    {[kind |-> "response", has_status |-> TRUE, code |-> Some(200), msg |-> ""],
     [kind |-> "HTTPError", has_status |-> TRUE, code |-> Some(304), msg |-> "Not Modified"],
     [kind |-> "HTTPError", has_status |-> TRUE, code |-> Some(400), msg |-> "Bad Request"],
     [kind |-> "URLError", has_status |-> FALSE, code |-> None, msg |-> "timed out"]}

GenInit ==
    /\ MainOff
    /\ DecideOff
    /\ FetchOff
    /\ sm_web \in GenWebs
    /\ sm_pc = "fetch"
    /\ sm_stack = <<>>
    /\ sm_result = <<>>
    /\ sm_fetched = <<>>
    /\ sm_limit_hits = 0
    /\ g_pc = "resolve"
    /\ g_precheck \in BOOLEAN
    /\ live_urls = <<>>
    /\ g_futures = <<>>
    /\ g_yielded = {}
    /\ live_status = <<>>
    /\ staging_status = <<>>
    /\ g_rows = <<>>
    /\ g_sink = NoSink
    /\ g_exit = None

\* staging_urls, line 260
StagingUrl(i) == build_staging_url(live_urls[i], StagingBase)

\* lines 245-263: fetch_sitemap_urls has returned; without URLs the empty list of
\* rows is returned at once
GenResolved ==
    /\ g_pc = "resolve" /\ sm_pc = "done"
    /\ live_urls' = sm_result
    /\ IF sm_result = <<>>
       THEN /\ g_pc' = "empty"
            /\ UNCHANGED <<live_status, staging_status>>
       ELSE /\ live_status' = [i \in 1..Len(sm_result) |-> None]
            /\ staging_status' = [i \in 1..Len(sm_result) |-> None]
            /\ g_pc' = IF g_precheck THEN "submit" ELSE "rows"
    /\ UNCHANGED <<mainVars, decideVars, fetchVars, smVars, g_precheck, g_futures, g_yielded,
                   g_rows, g_sink, g_exit>>

\* lines 267-272: one executor.submit, the live URLs first, then the staging URLs
GenSubmit ==
    /\ g_pc = "submit"
    /\ LET n == Len(live_urls)
           k == Len(g_futures) + 1
           task == IF k <= n
                   THEN [kind |-> "live", idx |-> k - 1, url |-> ensure_https(live_urls[k])]
                   ELSE [kind |-> "staging", idx |-> k - n - 1,
                         url |-> ensure_https(StagingUrl(k - n))]
       IN  /\ g_futures' = Append(g_futures,
                                  [kind |-> task.kind, idx |-> task.idx, url |-> task.url,
                                   state |-> "PENDING", result |-> None, exception |-> None])
           /\ g_pc' = IF k = 2 * n THEN "collect" ELSE "submit"
    /\ UNCHANGED <<mainVars, decideVars, fetchVars, smVars, g_precheck, live_urls, g_yielded,
                   live_status, staging_status, g_rows, g_sink, g_exit>>

\* a worker of the pool of 32 runs fetch_status for a submitted task and returns
GenWorkerReturn ==
    /\ g_pc \in {"submit", "collect"}
    /\ \E k \in DOMAIN g_futures, net \in GenNetBehaviours :
        /\ g_futures[k].state = "PENDING"
        /\ g_futures' = [g_futures EXCEPT ![k].state = "FINISHED",
                                          ![k].result = Some(fetch_status(g_futures[k].url, net))]
    /\ UNCHANGED <<mainVars, decideVars, fetchVars, smVars, g_pc, g_precheck, live_urls,
                   g_yielded, live_status, staging_status, g_rows, g_sink, g_exit>>

\* the task ends with an exception instead
GenWorkerRaise ==
    /\ g_pc \in {"submit", "collect"}
    /\ \E k \in DOMAIN g_futures :
        /\ g_futures[k].state = "PENDING"
        /\ g_futures' = [g_futures EXCEPT ![k].state = "FINISHED",
                                          ![k].exception = Some("fault")]
    /\ UNCHANGED <<mainVars, decideVars, fetchVars, smVars, g_pc, g_precheck, live_urls,
                   g_yielded, live_status, staging_status, g_rows, g_sink, g_exit>>

\* a slip: the code stored at the position of arrival
GenCollect_ByArrival ==
    /\ g_pc = "collect"
    /\ \E k \in DOMAIN g_futures \ g_yielded :
        /\ g_futures[k].state = "FINISHED"
        /\ LET code == IF g_futures[k].exception # None THEN None
                       ELSE g_futures[k].result[1].status_code
               at == (Cardinality(g_yielded) % Len(live_urls)) + 1
           IN  IF g_futures[k].kind = "live"
               THEN /\ live_status' = [live_status EXCEPT ![at] = code]
                    /\ UNCHANGED staging_status
               ELSE /\ staging_status' = [staging_status EXCEPT ![at] = code]
                    /\ UNCHANGED live_status
        /\ g_yielded' = g_yielded \cup {k}
    /\ UNCHANGED <<mainVars, decideVars, fetchVars, smVars, g_pc, g_precheck, live_urls,
                   g_futures, g_rows, g_sink, g_exit>>

\* lines 273-282, one turn of the as_completed loop
GenCollect ==
    /\ g_pc = "collect"
    /\ \E k \in DOMAIN g_futures \ g_yielded :
        /\ g_futures[k].state = "FINISHED"
        /\ LET code == IF g_futures[k].exception # None THEN None
                       ELSE g_futures[k].result[1].status_code
           IN  IF g_futures[k].kind = "live"
               THEN /\ live_status' = [live_status EXCEPT ![g_futures[k].idx + 1] = code]
                    /\ UNCHANGED staging_status
               ELSE /\ staging_status' = [staging_status EXCEPT ![g_futures[k].idx + 1] = code]
                    /\ UNCHANGED live_status
        /\ g_yielded' = g_yielded \cup {k}
    /\ UNCHANGED <<mainVars, decideVars, fetchVars, smVars, g_pc, g_precheck, live_urls,
                   g_futures, g_rows, g_sink, g_exit>>

\* as_completed is exhausted and the with block of line 266 ends
GenExitPool ==
    /\ g_pc = "collect"
    /\ g_yielded = DOMAIN g_futures
    /\ g_pc' = "rows"
    /\ UNCHANGED <<mainVars, decideVars, fetchVars, smVars, g_precheck, live_urls, g_futures,
                   g_yielded, live_status, staging_status, g_rows, g_sink, g_exit>>

\* lines 286-298, the row generated for live_urls[i]
GenRow(i) ==
    (FieldLive :> Some(live_urls[i]))
        @@ (FieldLink :> Some(StagingUrl(i)))
        @@ (FieldExists :> Some(Chars(IF is_ok(staging_status[i]) THEN "Yes" ELSE "No")))
        @@ (FieldMatches :> Some(IF is_ok(live_status[i]) /\ is_ok(staging_status[i])
                                 THEN TxtYes ELSE TxtPageDoesNotExist))
        @@ ("Redirect URL" :> Some(TxtEmpty))
        @@ (FieldScope :> Some(TxtEmpty))
        @@ (FieldStatus :> Some(TxtEmpty))

\* lines 284-299
GenBuildRows ==
    /\ g_pc = "rows"
    /\ g_rows' = [i \in 1..Len(live_urls) |-> GenRow(i)]
    /\ g_pc' = IF g_rows' = <<>> THEN "empty" ELSE "open"
    /\ UNCHANGED <<mainVars, decideVars, fetchVars, smVars, g_precheck, live_urls, g_futures,
                   g_yielded, live_status, staging_status, g_sink, g_exit>>

\* a slip: the file written whether or not there are rows
GenNoRows_WriteAnyway ==
    /\ g_pc = "empty"
    /\ g_pc' = "open"
    /\ UNCHANGED <<mainVars, decideVars, fetchVars, smVars, g_precheck, live_urls, g_futures,
                   g_yielded, live_status, staging_status, g_rows, g_sink, g_exit>>

\* lines 329-331: no rows, main returns 2
GenNoRows ==
    /\ g_pc = "empty"
    /\ g_exit' = Some(2)
    /\ g_pc' = "done"
    /\ UNCHANGED <<mainVars, decideVars, fetchVars, smVars, g_precheck, live_urls, g_futures,
                   g_yielded, live_status, staging_status, g_rows, g_sink>>

\* lines 333-335 and 311-313: the output file is created and the header written
GenOpenOutput ==
    /\ g_pc = "open"
    /\ g_sink' = [opened |-> TRUE, header |-> GenFieldnames, rows |-> <<>>]
    /\ g_pc' = "write"
    /\ UNCHANGED <<mainVars, decideVars, fetchVars, smVars, g_precheck, live_urls, g_futures,
                   g_yielded, live_status, staging_status, g_rows, g_exit>>

\* lines 336-338: open() fails
GenOpenFails ==
    /\ g_pc = "open"
    /\ g_exit' = Some(3)
    /\ g_pc' = "done"
    /\ UNCHANGED <<mainVars, decideVars, fetchVars, smVars, g_precheck, live_urls, g_futures,
                   g_yielded, live_status, staging_status, g_rows, g_sink>>

\* lines 314-315, one writer.writerow
GenWriteRow ==
    /\ g_pc = "write"
    /\ Len(g_sink.rows) < Len(g_rows)
    /\ g_sink' = [g_sink EXCEPT
                     !.rows = Append(@, RowOut(GenFieldnames, g_rows[Len(g_sink.rows) + 1]))]
    /\ UNCHANGED <<mainVars, decideVars, fetchVars, smVars, g_pc, g_precheck, live_urls,
                   g_futures, g_yielded, live_status, staging_status, g_rows, g_exit>>

\* lines 336-338: a write fails after the file was opened
GenWriteFails ==
    /\ g_pc = "write"
    /\ g_exit' = Some(3)
    /\ g_pc' = "done"
    /\ UNCHANGED <<mainVars, decideVars, fetchVars, smVars, g_precheck, live_urls, g_futures,
                   g_yielded, live_status, staging_status, g_rows, g_sink>>

\* lines 340-342: the file is closed and main returns 0
GenFinish ==
    /\ g_pc = "write"
    /\ Len(g_sink.rows) = Len(g_rows)
    /\ g_exit' = Some(0)
    /\ g_pc' = "done"
    /\ UNCHANGED <<mainVars, decideVars, fetchVars, smVars, g_precheck, live_urls, g_futures,
                   g_yielded, live_status, staging_status, g_rows, g_sink>>

GenNext ==
    \/ SmFetchTop \/ SmStep \/ SmReturn
    \/ GenResolved \/ GenSubmit \/ GenWorkerReturn \/ GenWorkerRaise \/ GenCollect
    \/ GenExitPool \/ GenBuildRows \/ GenNoRows \/ GenOpenOutput \/ GenOpenFails \/ GenWriteRow
    \/ GenWriteFails \/ GenFinish

SpecGen == GenInit /\ [][GenNext]_vars

(***************************************************************************)
(* Claims about the check-mode run (checked under Spec and FairSpec)       *)
(***************************************************************************)
\* the rows of the input file, as read
InputRows == IF input_file = None THEN <<>> ELSE input_file[1].rows
InputLink(idx) == OrEmpty(RowGet(InputRows[idx + 1], FieldLink, None))
\* original indices in [0, N) whose URL has a character that is not whitespace
NonEmptyIndices ==
    {idx \in 0..(Len(InputRows) - 1) :
        \E j \in 1..Len(InputLink(idx)) : InputLink(idx)[j] \notin Whitespace}
EmptyIndices == (0..(Len(InputRows) - 1)) \ NonEmptyIndices
\* main() is past the collection of lines 371-398
CollectionFinished ==
    /\ Alive
    /\ \/ pc \in {"classify", "write"}
       \/ pc = "done" /\ exit_code \in {Some(0), Some(3)}
\* main() is past the dict comprehension of lines 378-381
AllSubmitted == Alive /\ (pc = "collect" \/ CollectionFinished)
Outstanding ==
    {idx \in DOMAIN futures : futures[idx].state # "FINISHED" \/ idx \notin yielded}
Symbols == {<<"Y","e","s">>, <<"N","o">>, <<"4","0","4">>}

\* C1: scheduler completeness. When collection has finished, index_to_result has
\* exactly M entries, its keys are exactly the original indices in [0, N) whose
\* trimmed URL is non-empty, and M outcomes were recorded in all (each index once),
\* whatever the completion order.
C1_SchedulerCompleteness ==
    CollectionFinished =>
        /\ DOMAIN index_to_result = NonEmptyIndices
        /\ Cardinality(DOMAIN index_to_result) = Cardinality(NonEmptyIndices)
        /\ completed = Cardinality(NonEmptyIndices)
        /\ yielded = NonEmptyIndices
        /\ DOMAIN index_to_result \subseteq 0..(Len(rows) - 1)

C1_Witness ==
    /\ CollectionFinished
    /\ Len(rows) = 3
    /\ DOMAIN index_to_result = {0, 2}
    /\ completed = 2
    /\ index_to_result[0].status_code = Some(404)
    /\ index_to_result[2].status_code = Some(200)

\* C7: a row whose 'Theoretical Staging Link' is empty or whitespace-only is never
\* submitted to the prober and is classified with an absent outcome (status_code
\* None); every row with a non-empty trimmed URL has exactly one probe dispatched.
C7_EmptyUrlNeverProbed ==
    Alive =>
        /\ \A idx \in EmptyIndices :
            /\ idx \notin DOMAIN futures
            /\ idx \notin running
            /\ \A q \in DOMAIN work_queue : work_queue[q] # idx
            /\ \A k \in DOMAIN urls_to_check : urls_to_check[k][1] # idx
            /\ idx \notin DOMAIN index_to_result
            /\ (idx < classify_i /\ idx < Len(rows)) =>
                   rows[idx + 1][FieldExists] =
                       Some(Chars(decide_page_exists_value(None,
                                      rows[idx + 1][FieldScope],
                                      rows[idx + 1][FieldStatus],
                                      rows[idx + 1][FieldMatches])))
        /\ \A k1, k2 \in DOMAIN urls_to_check :
               urls_to_check[k1][1] = urls_to_check[k2][1] => k1 = k2
        /\ \A q1, q2 \in DOMAIN work_queue : work_queue[q1] = work_queue[q2] => q1 = q2
        /\ \A idx \in DOMAIN futures :
               /\ (futures[idx].state = "PENDING") <=> (\E q \in DOMAIN work_queue : work_queue[q] = idx)
               /\ (futures[idx].state = "RUNNING") <=> (idx \in running)
        /\ AllSubmitted =>
               /\ DOMAIN futures = NonEmptyIndices
               /\ Len(urls_to_check) = Cardinality(NonEmptyIndices)

C7_Witness ==
    /\ Alive /\ pc = "done" /\ exit_code = Some(0)
    /\ Len(rows) = 3
    /\ EmptyIndices = {0, 1}
    /\ InputLink(0) = TxtBlank
    /\ InputLink(1) = TxtEmpty
    /\ rows[1][FieldExists] = Some(<<"4","0","4">>)
    /\ rows[2][FieldExists] = Some(<<"N","o">>)
    /\ DOMAIN futures = {2}

\* C8: when dispatched probe tasks raise instead of returning, exactly those indices
\* get an unresolved outcome (status_code None with the fault's description), every
\* other dispatched index gets the outcome its own probe returned, and a run that
\* dispatched probes ends only after every row was classified and the output
\* written or its writing attempted; while outcomes are awaited, one is ready to
\* be collected or a probe is running or can start.
C8_FaultDoesNotAbort ==
    Alive =>
        /\ \A idx \in yielded :
               /\ idx \in DOMAIN index_to_result
               /\ IF futures[idx].exception # None
                  THEN index_to_result[idx] =
                           [url |-> <<>>, status_code |-> None, error |-> futures[idx].exception]
                  ELSE /\ index_to_result[idx] = futures[idx].result[1]
                       /\ index_to_result[idx].url = futures[idx].url
        /\ (pc = "done" /\ DOMAIN futures # {}) =>
               /\ exit_code \in {Some(0), Some(3)}
               /\ yielded = DOMAIN futures
               /\ classify_i = Len(rows)
               /\ write_calls = 1
               /\ exit_code = Some(0) => Len(sink.rows) = Len(rows)
        /\ (pc = "collect" /\ yielded # DOMAIN futures) =>
               \/ \E idx \in DOMAIN futures \ yielded : futures[idx].state = "FINISHED"
               \/ running # {}
               \/ work_queue # <<>> /\ Cardinality(running) < num_threads

C8_Witness ==
    /\ Alive /\ pc = "done" /\ exit_code = Some(0)
    /\ DOMAIN futures = {0, 1, 2}
    /\ futures[0].exception # None
    /\ futures[2].exception # None
    /\ index_to_result[0].status_code = None
    /\ index_to_result[1].status_code = Some(200)
    /\ index_to_result[2].error = Some("fault")
    /\ Len(sink.rows) = 3

\* C9: all-or-nothing output. write_csv_rows is entered at most once, and the output
\* file exists only when every dispatched probe has completed with its outcome
\* recorded and every row has been classified; with a probe outstanding, or after
\* an interrupt before the batch finished, nothing has been written to the sink.
C9_AllOrNothing ==
    /\ write_calls <= 1
    /\ (Alive /\ (sink # NoSink \/ write_calls > 0)) =>
           /\ Outstanding = {}
           /\ running = {} /\ work_queue = <<>>
           /\ DOMAIN index_to_result = NonEmptyIndices
           /\ classify_i = Len(rows)
           /\ Len(rows) = Len(InputRows)
           /\ \A i \in 1..Len(rows) : rows[i][FieldExists] \in {Some(t) : t \in Symbols}
    /\ (Alive /\ (Outstanding # {} \/ running # {} \/ work_queue # <<>>)) =>
           sink = NoSink /\ write_calls = 0
    /\ (interrupted /\ pc \in {"setup", "read", "check_columns", "select", "pool",
                               "submit", "collect", "classify"}) =>
           sink = NoSink /\ write_calls = 0
    /\ Len(sink.rows) <= Len(InputRows)

C9_Witness ==
    /\ Alive /\ pc = "write"
    /\ Len(sink.rows) = 2
    /\ Len(rows) = 3
    /\ Cardinality(yielded) = 2

MaxOf(a, b) == IF a >= b THEN a ELSE b
AllStarted == \A idx \in DOMAIN futures : futures[idx].state # "PENDING"

\* C10: at every moment at most max(1, concurrency) probes execute, where concurrency
\* is the caller's limit; a limit of 0 or below behaves as 1; and every dispatched
\* probe eventually runs (unless the process is killed first): the executor's queue
\* is first-in first-out, so whenever probes wait in it, a later state has none
\* waiting and every submitted future past PENDING.
C10_BoundedConcurrency ==
    /\ [](Alive => Cardinality(running) <= MaxOf(1, args_concurrency))
    /\ []((Alive /\ pc # "setup" /\ args_concurrency <= 0) => concurrency = 1)
    /\ [](Alive => (exit_code # Some(1) /\ num_threads <= MaxOf(1, args_concurrency)))
    /\ (Alive /\ work_queue # <<>>) ~> (interrupted \/ (work_queue = <<>> /\ AllStarted))

C10_Witness ==
    /\ Alive
    /\ args_concurrency = 0
    /\ Cardinality(running) = 1
    /\ Len(work_queue) = 2

(***************************************************************************)
(* Claims about the classifier (checked under SpecDecide)                  *)
(***************************************************************************)
Decided == d_out # None
DCode == d_in.status_code
DResolved(c) == DCode = Some(c)
DUrlMatchIsYes ==
    Lower(Strip(OrEmpty(d_in.url_matches_value))) \in {TokYes, TokY, TokTrue}
DNotNeeded == not_needed(d_in.scope_value, d_in.status_value)
DInScope == is_in_scope(d_in.scope_value, d_in.status_value)
\* "No" if not_needed, otherwise "404" if is_in_scope, otherwise "No"
DScopeDriven ==
    d_out = Some(IF DNotNeeded THEN "No" ELSE IF DInScope THEN "404" ELSE "No")

\* C2: a resolved status code c with 200 <= c < 400 is classified "Yes" for every
\* scope, status and url-matches text, 'Not in Scope' and 'Not needed' included.
C2_ResolvedOkIsYes ==
    (Decided /\ DCode # None /\ 200 <= DCode[1] /\ DCode[1] < 400)
        => d_out = Some("Yes")

C2_Witness ==
    /\ d_out = Some("Yes")
    /\ DResolved(301)
    /\ d_in.scope_value = Some(TxtNotInScope)
    /\ d_in.status_value = Some(TxtNotNeededForLaunch)

\* C3: a resolved 404 whose url-matches text, trimmed and lowercased, is "yes", "y"
\* or "true" is classified "No" for every scope and status text, in-scope and
\* needed-for-launch rows included (scenario D).
C3_MatchedNotFoundIsNo ==
    /\ (Decided /\ DResolved(404) /\ DUrlMatchIsYes) => d_out = Some("No")
    /\ (Decided /\ DResolved(404) /\ d_in.status_value = Some(TxtNeededForLaunch)
            /\ d_in.url_matches_value \in {Some(TxtYes), Some(TxtYPadded), Some(TxtTrueUpper)})
        => d_out = Some("No")

C3_Witness ==
    /\ d_out = Some("No")
    /\ DResolved(404)
    /\ d_in.url_matches_value = Some(TxtYPadded)
    /\ d_in.scope_value = Some(TxtInScope)
    /\ d_in.status_value = Some(TxtNeededForLaunch)

\* C4: with no status code the answer is "No" if not_needed, else "404" if
\* is_in_scope, else "No"; not_needed wins when both hold, so scope 'Not in Scope'
\* or status 'Not needed for launch' gives "No" and scope 'In Scope' gives "404".
C4_UnresolvedIsScopeDriven ==
    (Decided /\ DCode = None) =>
        /\ DScopeDriven
        /\ (DNotNeeded /\ DInScope) => d_out = Some("No")
        /\ d_in.scope_value = Some(TxtNotInScope) => d_out = Some("No")
        /\ d_in.status_value = Some(TxtNotNeededForLaunch) => d_out = Some("No")
        /\ (d_in.scope_value = Some(TxtInScope) /\ d_in.status_value \in {None, Some(TxtEmpty)})
              => d_out = Some("404")

C4_Witness ==
    /\ d_out = Some("No")
    /\ DCode = None
    /\ d_in.scope_value = Some(TxtNotInScope)
    /\ DInScope
    /\ DNotNeeded

\* C5: a resolved 404 whose normalized url-matches text is none of "yes", "y", "true"
\* is classified "No" if not_needed, else "404" if is_in_scope, else "No"; "404" is
\* returned only for a row that is in scope and not marked not-needed (scenario C).
C5_NotFoundIsScopeDriven ==
    /\ (Decided /\ DResolved(404) /\ ~DUrlMatchIsYes) => DScopeDriven
    /\ (Decided /\ d_out = Some("404")) => (DInScope /\ ~DNotNeeded)
    /\ (Decided /\ DResolved(404) /\ d_in.status_value = Some(TxtNeededForLaunch)
            /\ d_in.scope_value = Some(TxtEmpty) /\ d_in.url_matches_value = Some(TxtEmpty))
        => d_out = Some("404")

C5_Witness ==
    /\ d_out = Some("404")
    /\ DResolved(404)
    /\ d_in.url_matches_value = Some(TxtYesPlease)
    /\ d_in.status_value = Some(TxtNeededForLaunch)
    /\ d_in.scope_value = Some(TxtEmpty)

\* C6: a resolved status code outside [200,400) and other than 404 is classified
\* "No" whatever the scope, status and url-matches text; an in-scope row that
\* answers 500 or 403 is never flagged "404".
C6_OtherCodesAreNo ==
    (Decided /\ DCode # None /\ ~(200 <= DCode[1] /\ DCode[1] < 400) /\ DCode[1] # 404)
        => d_out = Some("No")

C6_Witness ==
    /\ d_out = Some("No")
    /\ DResolved(403)
    /\ d_in.scope_value = Some(TxtInScope)
    /\ d_in.status_value = Some(TxtNeededForLaunch)
    /\ d_in.url_matches_value = Some(TxtNo)

(***************************************************************************)
(* Further claims about the check-mode run (checked under Spec)            *)
(***************************************************************************)
\* the header of the input file, as read
InputHeader == IF input_file = None THEN <<>> ELSE input_file[1].fieldnames
\* the position of a column in the input header
ColumnsOf(name) == {j \in 1..Len(InputHeader) : InputHeader[j] = name}
\* the input file lacks a column the run needs
MissingColumns ==
    /\ input_file # None
    /\ ~({FieldLink, FieldExists} \subseteq Range(InputHeader))
\* the status code the probe of original index idx ended with (None: no probe, no
\* answer, or a fault in the probe)
OutcomeCode(idx) ==
    IF idx \in DOMAIN futures /\ futures[idx].state = "FINISHED"
           /\ futures[idx].exception = None
    THEN futures[idx].result[1].status_code
    ELSE None
\* the symbol the classifier gives the input row at idx for a status code
SymbolFor(idx, code) ==
    Chars(decide_page_exists_value(code,
                                   RowGet(InputRows[idx + 1], FieldScope, Some(<<>>)),
                                   RowGet(InputRows[idx + 1], FieldStatus, Some(<<>>)),
                                   RowGet(InputRows[idx + 1], FieldMatches, Some(<<>>))))

\* C11: frame. Between reading and writing, check mode changes nothing but the value
\* of 'Page Exists?': in memory the header, the number and order of the rows, every
\* row's set of fields and the value of every other field stay as read; the file has
\* the input's header, each written row has one value per column and the input's
\* value in every column but 'Page Exists?', in the input's order; a completed run
\* has written as many rows as it read. This holds for every outcome of every probe.
C11_Frame ==
    /\ (Alive /\ pc \notin {"setup", "read"} /\ input_file # None) =>
           /\ fieldnames = InputHeader
           /\ Len(rows) = Len(InputRows)
           /\ \A i \in 1..Len(rows) :
                 /\ DOMAIN rows[i] \ {FieldExists} = DOMAIN InputRows[i] \ {FieldExists}
                 /\ \A f \in DOMAIN rows[i] \ {FieldExists} : rows[i][f] = InputRows[i][f]
    /\ sink.opened => sink.header = InputHeader
    /\ Len(sink.rows) <= Len(InputRows)
    /\ \A i \in 1..Len(sink.rows) :
          /\ Len(sink.rows[i]) = Len(InputHeader)
          /\ \A j \in 1..Len(InputHeader) :
                InputHeader[j] # FieldExists =>
                    sink.rows[i][j] = OrEmpty(InputRows[i][InputHeader[j]])
    /\ (pc = "done" /\ exit_code = Some(0)) => Len(sink.rows) = Len(InputRows)

\* a completed run over three rows, two of them probed with different outcomes, whose
\* output differs from the input in 'Page Exists?'
C11_Witness ==
    /\ pc = "done" /\ exit_code = Some(0)
    /\ Len(sink.rows) = MaxRows
    /\ \E a, b \in DOMAIN index_to_result :
          /\ index_to_result[a].status_code = Some(200)
          /\ index_to_result[b].status_code = None
    /\ \E i \in 1..Len(sink.rows) : \E j \in ColumnsOf(FieldExists) :
          sink.rows[i][j] # OrEmpty(InputRows[i][FieldExists])

\* C12: every classified row - probed or not, whatever its prior value - holds one
\* of "Yes", "No", "404" in 'Page Exists?'; when the classification loop has ended,
\* every row holds the classifier's answer for it (so no prior value is kept); the
\* file is opened only once every row is classified, and nothing but these three
\* strings is written to that column.
C12_ClassificationTotal ==
    /\ (Alive /\ input_file # None) =>
           \A idx \in 0..(classify_i - 1) :
              /\ FieldExists \in DOMAIN rows[idx + 1]
              /\ rows[idx + 1][FieldExists] \in {Some(sym) : sym \in Symbols}
    /\ (Alive /\ pc = "classify" /\ classify_i = Len(rows)) =>
           \A idx \in 0..(Len(rows) - 1) :
              rows[idx + 1][FieldExists] = Some(SymbolFor(idx, StatusCodeFor(idx)))
    /\ (Alive /\ pc \in {"write", "done"} /\ write_calls > 0) => classify_i = Len(rows)
    /\ \A i \in 1..Len(sink.rows) : \A j \in ColumnsOf(FieldExists) :
          sink.rows[i][j] \in Symbols

\* a completed run in which a row with an empty URL and the prior value "Yes" was
\* written as "No", next to a probed row
C12_Witness ==
    /\ pc = "done" /\ exit_code = Some(0)
    /\ index_to_result # <<>>
    /\ \E i \in 1..Len(sink.rows) : \E j \in ColumnsOf(FieldExists) :
          /\ (i - 1) \notin DOMAIN index_to_result
          /\ InputRows[i][FieldExists] = Some(TxtYes)
          /\ sink.rows[i][j] = <<"N","o">>

\* C13: when the header lacks 'Theoretical Staging Link' or 'Page Exists?', the run
\* never gets past the column check: no probe is dispatched, no output file is
\* opened and the run ends with status 2. Status 3 is returned only after a write was
\* attempted on a well-formed input, and a failed write never returns 2.
C13_InputShapeFault ==
    /\ MissingColumns =>
           /\ pc \in {"setup", "read", "check_columns", "done"}
           /\ futures = <<>> /\ work_queue = <<>> /\ running = {}
           /\ index_to_result = <<>>
           /\ sink = NoSink /\ write_calls = 0
           /\ exit_code \in {None, Some(2)}
           /\ pc = "done" => exit_code = Some(2)
    /\ exit_code = Some(3) => (write_calls = 1 /\ input_file # None /\ ~MissingColumns)
    /\ exit_code = Some(2) => (write_calls = 0 /\ sink = NoSink)
    /\ (pc = "done" /\ write_calls = 1) => exit_code \in {Some(0), Some(3)}

\* a run ended with status 2 on a file that has the link column and rows with a URL,
\* but no 'Page Exists?' column
C13_Witness ==
    /\ pc = "done" /\ exit_code = Some(2) /\ ~interrupted
    /\ MissingColumns
    /\ FieldLink \in Range(InputHeader)
    /\ \E i \in 1..Len(InputRows) : Strip(OrEmpty(InputRows[i][FieldLink])) # <<>>

\* C17: order-independence. Whatever the order in which probes complete and are
\* collected, the outcome stored for an original index is the outcome of that
\* index's own probe, the status code the classification reads for a row is the one
\* of the row's own probe, what is written is what the row holds, and in the
\* complete output the value of every row is the classifier's answer for that
\* row's input fields and that row's own outcome: a function of the input rows and
\* the per-index outcomes alone, also for rows that share one URL.
C17_OrderIndependence ==
    Alive =>
        /\ \A idx \in DOMAIN index_to_result :
              /\ idx \in yielded
              /\ index_to_result[idx].status_code = OutcomeCode(idx)
              /\ futures[idx].exception = None =>
                     index_to_result[idx].url = RowUrl(InputRows[idx + 1])
        /\ pc \in {"classify", "write", "done"} =>
              \A idx \in 0..(Len(rows) - 1) : StatusCodeFor(idx) = OutcomeCode(idx)
        /\ pc \in {"write", "done"} =>
              \A i \in 1..Len(sink.rows) : \A j \in ColumnsOf(FieldExists) :
                  sink.rows[i][j] = rows[i][FieldExists][1]
        /\ (pc = "done" /\ exit_code = Some(0)) =>
              \A i \in 1..Len(rows) : \A j \in ColumnsOf(FieldExists) :
                  sink.rows[i][j] = SymbolFor(i - 1, OutcomeCode(i - 1))

\* a completed run in which two rows carry the same URL, their probes ended
\* differently, and each row was written with the answer for its own probe
C17_Witness ==
    /\ pc = "done" /\ exit_code = Some(0) /\ ~interrupted
    /\ \E a, b \in DOMAIN futures :
          /\ a # b
          /\ futures[a].url = futures[b].url
          /\ OutcomeCode(a) = Some(200)
          /\ OutcomeCode(b) = Some(404)
          /\ \E j \in ColumnsOf(FieldExists) :
                /\ sink.rows[a + 1][j] = <<"Y","e","s">>
                /\ sink.rows[b + 1][j] # <<"Y","e","s">>

(***************************************************************************)
(* Claims about fetch_status (checked under SpecFetch)                     *)
(***************************************************************************)
\* C14: fetch_status is total. Every call returns one CrawlResult for the URL it was
\* given and raises nothing: for the empty URL the result is unresolved with the
\* description "empty-url" and no request was sent; otherwise one request was sent,
\* and the status code is the response's code whenever an HTTP response came back -
\* accepted or reported as HTTPError, 4xx and 5xx included - and None with a
\* non-empty description after a transport failure or any other exception.
C14_FetchStatusTotal ==
    /\ f_requests \in {0, 1}
    /\ f_in.url = <<>> => f_requests = 0
    /\ f_out # None =>
          LET r == f_out[1]
              net == f_in.net
          IN  /\ DOMAIN r = {"url", "status_code", "error"}
              /\ r.url = f_in.url
              /\ f_in.url = <<>> =>
                     (r.status_code = None /\ r.error = Some("empty-url") /\ f_requests = 0)
              /\ f_in.url # <<>> =>
                     /\ f_requests = 1
                     /\ (net.kind \in {"response", "HTTPError"} /\ net.code # None) =>
                            r.status_code = net.code
                     /\ net.kind = "response" => r.error = None
                     /\ net.kind \in {"URLError", "Exception"} =>
                            (r.status_code = None /\ r.error # None /\ r.error[1] # "")

\* a call for a real URL that ended in an exception which is neither HTTPError nor
\* URLError, and returned an unresolved result
C14_Witness ==
    /\ f_out # None
    /\ f_in.url = TxtUrlA
    /\ f_in.net.kind = "Exception"
    /\ f_out[1].status_code = None
    /\ f_out[1].error = Some("timed out")

(***************************************************************************)
(* Claims about sitemap resolution (checked under SpecSitemap and          *)
(* FairSpecSitemap)                                                        *)
(***************************************************************************)
\* the documents the sitemap entries of index document d name
IndexChildren(d) ==
    IF sm_web[d].kind = "sitemapindex"
    THEN {ref[1] : ref \in Range(sm_web[d].children) \ {None}}
    ELSE {}
\* the documents reachable from a set of documents through sitemap-index entries
RECURSIVE ReachFrom(_)
ReachFrom(S) ==
    LET T == S \cup UNION {IndexChildren(d) : d \in S}
    IN  IF T = S THEN S ELSE ReachFrom(T)
Reachable == ReachFrom({Top})
\* the stripped loc texts of the url entries of the reachable urlset documents
ReachableUrls ==
    UNION {{Strip(loc[1]) : loc \in {l \in Range(sm_web[d].urls) : l # None /\ l[1] # <<>>}} :
              d \in {x \in Reachable : sm_web[x].kind = "urlset"}}
\* a reachable index leads back to itself, directly or through a chain
Cyclic ==
    \E d \in Reachable :
        sm_web[d].kind = "sitemapindex" /\ d \in ReachFrom(IndexChildren(d))
\* the entry the innermost call is about to expand names an index document
CurrentRef ==
    LET frame == sm_stack[Len(sm_stack)]
    IN  IF sm_pc = "expand" /\ frame.pos <= Len(sm_web[frame.doc].children)
        THEN sm_web[frame.doc].children[frame.pos]
        ELSE None
TimesFetched(d) == Cardinality({i \in 1..Len(sm_fetched) : sm_fetched[i] = d})

\* C16: fetch_sitemap_urls returns a list without duplicates, in ascending order,
\* whose elements are exactly the stripped loc values of the urlset documents
\* reachable from the top-level document through sitemap-index entries: a child that
\* cannot be fetched or parsed adds nothing and takes nothing from the others, and a
\* top-level document that cannot be fetched or parsed gives the empty list.
C16_SitemapResult ==
    sm_pc = "done" =>
        /\ \A i, j \in 1..Len(sm_result) : i < j => TextLess(sm_result[i], sm_result[j])
        /\ Range(sm_result) = ReachableUrls
        /\ sm_web[Top].kind \in {"unreachable", "malformed", "other"} => sm_result = <<>>

\* an index whose first child cannot be fetched and whose second child is a urlset
\* with two URLs, returned in ascending order
C16_Witness ==
    /\ sm_pc = "done"
    /\ sm_web[Top] = IndexDoc(<<Some("a"), Some("b")>>)
    /\ sm_web["a"].kind = "unreachable"
    /\ sm_web["b"] = UrlsetDoc(<<Some(TxtUrlA), Some(TxtUrlB)>>)
    /\ sm_result = <<TxtUrlB, TxtUrlA>>

\* C18: the expansion has no guard of its own against cycles. An entry that names an
\* index document is opened and expanded by a nested call whether or not that
\* document is being expanded already, so when an index leads back to itself the
\* resolution ends only after the interpreter's recursion limit has been hit; for an
\* acyclic arrangement the limit is never hit and the resolution ends.
C18_NoCycleGuard ==
    /\ []((Cyclic /\ sm_pc = "done") => sm_limit_hits > 0)
    /\ []((sm_pc # "off" /\ ~Cyclic) => sm_limit_hits = 0)
    /\ [][(CurrentRef # None /\ sm_web[CurrentRef[1]].kind = "sitemapindex"
               /\ Len(sm_stack) < MaxDepth)
            => (/\ sm_stack' = Append(sm_stack, NewFrame(CurrentRef[1]))
                /\ sm_fetched' = Append(sm_fetched, CurrentRef[1]))]_vars
    /\ (sm_pc \in {"fetch", "expand"} /\ ~Cyclic) ~> (sm_pc = "done")

\* an index whose only entry is itself: the document was fetched once per level,
\* then once more at the recursion limit, and the resolution returned nothing
C18_Witness ==
    /\ sm_pc = "done"
    /\ sm_web[Top] = IndexDoc(<<Some(Top)>>)
    /\ sm_limit_hits = 1
    /\ TimesFetched(Top) = MaxDepth + 1
    /\ sm_result = <<>>

(***************************************************************************)
(* Claims about generate mode (checked under SpecGen)                      *)
(***************************************************************************)
\* the precheck probe of the given kind for the URL at position i (from 1) was
\* dispatched and resolved with a status code in [200, 400)
ProbeOk(kind, i) ==
    \E k \in DOMAIN g_futures :
        /\ g_futures[k].kind = kind /\ g_futures[k].idx = i - 1
        /\ g_futures[k].state = "FINISHED" /\ g_futures[k].exception = None
        /\ g_futures[k].result[1].status_code # None
        /\ g_futures[k].result[1].status_code[1] \in 200..399
RowsBuilt == g_pc \in {"open", "write", "done"} /\ g_rows # <<>>
GenColumn(name) == CHOOSE j \in 1..Len(GenFieldnames) : GenFieldnames[j] = name

\* C15: in every generated row i, whatever the order in which the precheck probes
\* completed and were collected, 'Page Exists?' is "Yes" exactly when the staging
\* probe for i resolved with a status in [200, 400) and "No" otherwise, and
\* 'URL Matches' is "Yes" exactly when both the live and the staging probe for i did
\* and "Page Does Not Exist" otherwise; without precheck no probe exists and every
\* row holds "No" and "Page Does Not Exist". The written file holds the same values.
C15_GeneratedRows ==
    /\ ~g_precheck => g_futures = <<>>
    /\ RowsBuilt =>
          /\ Len(g_rows) = Len(live_urls)
          /\ \A i \in 1..Len(g_rows) :
                /\ g_rows[i][FieldLive] = Some(live_urls[i])
                /\ g_rows[i][FieldExists] =
                       Some(IF ProbeOk("staging", i) THEN <<"Y","e","s">> ELSE <<"N","o">>)
                /\ g_rows[i][FieldMatches] =
                       Some(IF ProbeOk("live", i) /\ ProbeOk("staging", i)
                            THEN <<"Y","e","s">> ELSE TxtPageDoesNotExist)
          /\ \A i \in 1..Len(g_sink.rows) :
                /\ g_sink.rows[i][GenColumn(FieldExists)] = g_rows[i][FieldExists][1]
                /\ g_sink.rows[i][GenColumn(FieldMatches)] = g_rows[i][FieldMatches][1]

\* a completed run over two URLs whose staging probes both resolved in range while
\* only the second live probe did, the probes of the second URL collected first
C15_Witness ==
    /\ g_pc = "done" /\ g_exit = Some(0) /\ g_precheck
    /\ Len(g_sink.rows) = 2
    /\ ProbeOk("staging", 1) /\ ~ProbeOk("live", 1)
    /\ g_sink.rows[1][GenColumn(FieldExists)] = <<"Y","e","s">>
    /\ g_sink.rows[1][GenColumn(FieldMatches)] = TxtPageDoesNotExist
    /\ g_sink.rows[2][GenColumn(FieldMatches)] = <<"Y","e","s">>
    /\ \E k \in DOMAIN g_futures :
          g_futures[k].kind = "live" /\ g_futures[k].idx = 0 /\ g_futures[k].exception # None

\* C19: when sitemap resolution yields no URLs, no precheck probe is dispatched, no
\* CSV file is created and the run ends with status 2; nothing is dispatched or
\* written before the resolution has returned, and a file is created only when at
\* least one row was generated.
C19_EmptySitemap ==
    /\ g_pc = "resolve" => (g_futures = <<>> /\ g_sink = NoSink /\ g_exit = None)
    /\ (g_pc \notin {"off", "resolve"} /\ live_urls = <<>>) =>
          /\ g_pc \in {"empty", "done"}
          /\ g_futures = <<>>
          /\ g_sink = NoSink
          /\ g_exit \in {None, Some(2)}
          /\ g_pc = "done" => g_exit = Some(2)
    /\ g_sink.opened => Len(g_rows) >= 1
    /\ g_exit = Some(2) => live_urls = <<>>

\* a run with precheck on a sitemap index none of whose children can be read, ended
\* with status 2
C19_Witness ==
    /\ g_pc = "done" /\ g_exit = Some(2) /\ g_precheck
    /\ sm_web[Top].kind = "sitemapindex"
    /\ Len(sm_fetched) = 3

====
